---- MODULE Spec2Model ----
(***************************************************************************)
(* TaskMaster-Pro backend (src/backend/main.py): in-memory accounts,       *)
(* session tokens and per-user tasks behind eight HTTP handlers.           *)
(*                                                                         *)
(* Every handler is an `async def` without an await, so the event loop     *)
(* runs each request to completion: one action per handler.                *)
(***************************************************************************)
EXTENDS Integers, Sequences, FiniteSets, TLC

(***************************************************************************)
(* Bounds of the exploration.                                              *)
(***************************************************************************)
\* successful logins explored (each draws one token)
MaxLogins == 2
\* successful creates explored (each consumes one task id)
MaxTasks == 2
\* last wall-clock second explored
MaxClock == 60

\* the wall clock when the process starts: one second before a minute
\* boundary, so that both sides of the boundary are explored
StartClock == 59

\* strftime("%Y-%m-%d %H:%M") drops the seconds
SecondsPerMinute == 60

\* Python's None
None == "None"

(***************************************************************************)
(* Request inputs.                                                         *)
(***************************************************************************)
Passwords == {"pw1", "pw2"}

\* bodies of POST /register (UserCreate)
UserCreates ==
    { [email |-> "a@x.com", name |-> "Ann", password |-> "pw1"],
      [email |-> "a@x.com", name |-> "Eve", password |-> "pw2"],
      [email |-> "b@x.com", name |-> "Bob", password |-> "pw2"] }

\* bodies of POST /login (LoginRequest)
LoginRequests ==
    { [email |-> e, password |-> p] :
        e \in {"a@x.com", "b@x.com", "c@x.com"}, p \in Passwords }

\* JSON bodies of POST /tasks and PUT /tasks/{id}; optional keys may be absent
TaskJsons ==
    { [title |-> "Buy milk"],
      [title |-> "Call mom", description |-> "today",
       priority |-> "alta", status |-> "done"] }

\* token query parameters: 0 is a string that is never issued
Tokens == 0..MaxLogins

\* task_id path parameters: the ids that can be issued, each of which is
\* the id of no task until it is issued
TaskIds == 1..MaxTasks

VARIABLES
    users_db,         \* dict email -> user_data, in insertion order
    tasks_db,         \* list of Task
    current_user_id,
    current_task_id,
    token_draws,      \* number of tokens drawn from secrets so far
    clock,            \* datetime.datetime.now(), in seconds
    logins,           \* history: the successful logins, [email, token], in order
    revoked,          \* history: the tokens a logout succeeded with
    created,          \* history: the task ids returned by create, in order
    deleted,          \* history: the successful deletes, [id, at], where at is
                      \* the number of creates that had succeeded by then
    requests,         \* the requests in flight, statement by statement: for
                      \* each its position, its locals and its response
    running           \* the request whose coroutine the event loop is
                      \* executing, 0 when the loop is idle

vars == << users_db, tasks_db, current_user_id, current_task_id, token_draws,
           clock, logins, revoked, created, deleted, requests, running >>

\* what the statement-by-statement executions add to the state
conc_vars == << requests, running >>

(***************************************************************************)
(* Python dict, kept as its list of items in insertion order.              *)
(***************************************************************************)
DictHas(d, k) == \E i \in 1..Len(d) : d[i].key = k

DictIndex(d, k) == CHOOSE i \in 1..Len(d) : d[i].key = k

DictGet(d, k) == d[DictIndex(d, k)].value

DictSet(d, k, v) ==
    IF DictHas(d, k)
    THEN [d EXCEPT ![DictIndex(d, k)] = [key |-> k, value |-> v]]
    ELSE Append(d, [key |-> k, value |-> v])

\* user_data["token"] = token
SetToken(user_data, token) ==
    [f \in DOMAIN user_data \cup {"token"} |->
        IF f = "token" THEN token ELSE user_data[f]]

\* user_data.pop("token", None)
PopToken(user_data) ==
    [f \in DOMAIN user_data \ {"token"} |-> user_data[f]]

\* user_data.get("token") == token, for a token that is a str
TokenIs(user_data, token) ==
    "token" \in DOMAIN user_data /\ user_data["token"] = token

(***************************************************************************)
(* Helpers of main.py.                                                     *)
(***************************************************************************)
\* hashlib.sha256(password.encode()).hexdigest()
hash_password(password) ==
    CASE password = "pw1" ->
           "c592df4a86933b92addc9842402ddf198c638ea9be58916ee6e3734e1e3152f8"
      [] password = "pw2" ->
           "93915a0a4bf8f634cb1856494dd4304472ad46b9827f541f76b6761c49cc55b0"

User(id, email, name) == [id |-> id, email |-> email, name |-> name]

\* the digest comparison forgotten: a registered email is enough
verify_user_email_only(users, email, password) ==
    IF DictHas(users, email)
    THEN [found |-> TRUE,
          user |-> User(DictGet(users, email).id, email,
                        DictGet(users, email).name)]
    ELSE [found |-> FALSE]

verify_user(users, email, password) ==
    IF /\ DictHas(users, email)
       /\ DictGet(users, email).password_hash = hash_password(password)
    THEN [found |-> TRUE,
          user |-> User(DictGet(users, email).id, email,
                        DictGet(users, email).name)]
    ELSE [found |-> FALSE]

\* a token that is not drawn afresh: every login returns the same value
token_hex_fixed(draws) == 1

\* secrets.token_hex(32): 256 random bits.  The draws are modelled as
\* pairwise distinct; the k-th draw is written k.
token_hex(draws) == draws + 1

\* datetime.datetime.now().strftime("%Y-%m-%d %H:%M"): the minute, written
\* as its index (the strings order as the indexes do)
strftime(now) == now \div SecondsPerMinute

get_current_user(users, token) ==
    IF \E i \in 1..Len(users) : TokenIs(users[i].value, token)
    THEN LET i == CHOOSE j \in 1..Len(users) :
                     /\ TokenIs(users[j].value, token)
                     /\ \A k \in 1..(j - 1) : ~TokenIs(users[k].value, token)
         IN [status |-> 200,
             user |-> User(users[i].value.id, users[i].key,
                           users[i].value.name)]
    ELSE [status |-> 401, detail |-> "Token invalido"]

(***************************************************************************)
(* POST /register                                                          *)
(***************************************************************************)
\* the membership test forgotten: the account is overwritten
register_overwrite(users, user_id, user_data) ==
    [status |-> 200,
     body |-> [message |-> "Usuario registrado exitosamente",
               user_id |-> (user_id + 1) - 1],
     users |-> DictSet(users, user_data.email,
                       [id |-> user_id,
                        name |-> user_data.name,
                        password_hash |-> hash_password(user_data.password)]),
     current_user_id |-> user_id + 1]

\* `current_user_id += 1` forgotten
register_no_increment(users, user_id, user_data) ==
    IF DictHas(users, user_data.email)
    THEN [status |-> 400, body |-> [detail |-> "El usuario ya existe"],
          users |-> users, current_user_id |-> user_id]
    ELSE [status |-> 200,
          body |-> [message |-> "Usuario registrado exitosamente",
                    user_id |-> user_id - 1],
          users |-> DictSet(users, user_data.email,
                            [id |-> user_id,
                             name |-> user_data.name,
                             password_hash |-> hash_password(user_data.password)]),
          current_user_id |-> user_id]

register(users, user_id, user_data) ==
    IF DictHas(users, user_data.email)
    THEN [status |-> 400, body |-> [detail |-> "El usuario ya existe"],
          users |-> users, current_user_id |-> user_id]
    ELSE [status |-> 200,
          body |-> [message |-> "Usuario registrado exitosamente",
                    user_id |-> (user_id + 1) - 1],
          users |-> DictSet(users, user_data.email,
                            [id |-> user_id,
                             name |-> user_data.name,
                             password_hash |-> hash_password(user_data.password)]),
          current_user_id |-> user_id + 1]

Register ==
    \E user_data \in UserCreates :
        LET r == register(users_db, current_user_id, user_data) IN
        /\ users_db' = r.users
        /\ current_user_id' = r.current_user_id
        /\ UNCHANGED conc_vars
        /\ UNCHANGED << tasks_db, current_task_id, token_draws, clock,
                        logins, revoked, created, deleted >>

(***************************************************************************)
(* POST /login                                                             *)
(***************************************************************************)
\* users_db[email].setdefault("token", token): a token the account already
\* holds is kept, the new one is returned but not stored
login_setdefault(users, draws, login_data) ==
    LET v == verify_user(users, login_data.email, login_data.password)
        token == token_hex(draws)
        user_data == DictGet(users, login_data.email)
    IN IF ~v.found
       THEN [status |-> 401, body |-> [detail |-> "Credenciales invalidas"],
             users |-> users, token_draws |-> draws]
       ELSE [status |-> 200,
             body |-> [message |-> "Login exitoso", token |-> token,
                       user |-> v.user],
             users |-> IF "token" \in DOMAIN user_data THEN users
                       ELSE DictSet(users, login_data.email,
                                    SetToken(user_data, token)),
             token_draws |-> draws + 1]

login(users, draws, login_data) ==
    LET v == verify_user(users, login_data.email, login_data.password)
        token == token_hex(draws)
    IN IF ~v.found
       THEN [status |-> 401, body |-> [detail |-> "Credenciales invalidas"],
             users |-> users, token_draws |-> draws]
       ELSE [status |-> 200,
             body |-> [message |-> "Login exitoso", token |-> token,
                       user |-> v.user],
             users |-> DictSet(users, login_data.email,
                               SetToken(DictGet(users, login_data.email), token)),
             token_draws |-> draws + 1]

Login ==
    \E login_data \in LoginRequests :
        LET r == login(users_db, token_draws, login_data) IN
        /\ r.status = 200 => token_draws < MaxLogins
        /\ users_db' = r.users
        /\ token_draws' = r.token_draws
        /\ logins' = IF r.status = 200
                     THEN Append(logins, [email |-> login_data.email,
                                          token |-> r.body.token])
                     ELSE logins
        /\ UNCHANGED conc_vars
        /\ UNCHANGED << tasks_db, current_user_id, current_task_id, clock,
                        revoked, created, deleted >>

(***************************************************************************)
(* POST /logout                                                            *)
(***************************************************************************)
\* the token of every account is cleared, not only the caller's
logout_clears_all(users, token) ==
    IF \E i \in 1..Len(users) : TokenIs(users[i].value, token)
    THEN [status |-> 200, body |-> [message |-> "Logout exitoso"],
          users |-> [i \in 1..Len(users) |->
                        [key |-> users[i].key,
                         value |-> PopToken(users[i].value)]]]
    ELSE [status |-> 401, body |-> [detail |-> "Token invalido"],
          users |-> users]

logout(users, token) ==
    IF \E i \in 1..Len(users) : TokenIs(users[i].value, token)
    THEN LET i == CHOOSE j \in 1..Len(users) :
                     /\ TokenIs(users[j].value, token)
                     /\ \A k \in 1..(j - 1) : ~TokenIs(users[k].value, token)
         IN [status |-> 200, body |-> [message |-> "Logout exitoso"],
             users |-> [users EXCEPT ![i].value = PopToken(@)]]
    ELSE [status |-> 401, body |-> [detail |-> "Token invalido"],
          users |-> users]

Logout ==
    \E token \in Tokens :
        LET r == logout(users_db, token) IN
        /\ users_db' = r.users
        /\ revoked' = IF r.status = 200 THEN revoked \cup {token} ELSE revoked
        /\ UNCHANGED conc_vars
        /\ UNCHANGED << tasks_db, current_user_id, current_task_id,
                        token_draws, clock, logins, created, deleted >>

(***************************************************************************)
(* Task models (pydantic).                                                 *)
(***************************************************************************)
\* the defaults written in English
TaskBase_english(json) ==
    [title |-> json.title,
     description |-> IF "description" \in DOMAIN json
                     THEN json.description ELSE None,
     priority |-> IF "priority" \in DOMAIN json THEN json.priority ELSE "medium",
     status |-> IF "status" \in DOMAIN json THEN json.status ELSE "pending"]

\* TaskBase: the fields of a JSON body with the defaults of the model
TaskBase(json) ==
    [title |-> json.title,
     description |-> IF "description" \in DOMAIN json
                     THEN json.description ELSE None,
     priority |-> IF "priority" \in DOMAIN json THEN json.priority ELSE "media",
     status |-> IF "status" \in DOMAIN json THEN json.status ELSE "pendiente"]

TaskCreate(json) == TaskBase(json)

Task(id, user_id, title, description, priority, status, created_at, updated_at) ==
    [id |-> id, user_id |-> user_id, title |-> title,
     description |-> description, priority |-> priority, status |-> status,
     created_at |-> created_at, updated_at |-> updated_at]

\* `or` in place of `and`: the first task with this id or of this user
find_task_or(tasks, task_id, user) ==
    IF \E i \in 1..Len(tasks) :
           tasks[i].id = task_id \/ tasks[i].user_id = user.id
    THEN CHOOSE i \in 1..Len(tasks) :
           /\ tasks[i].id = task_id \/ tasks[i].user_id = user.id
           /\ \A k \in 1..(i - 1) :
                  ~(tasks[k].id = task_id \/ tasks[k].user_id = user.id)
    ELSE 0

\* the loop of update_task, delete_task and get_task: the index of the first
\* task with this id owned by this user, 0 when the loop finds none
find_task(tasks, task_id, user) ==
    IF \E i \in 1..Len(tasks) :
           tasks[i].id = task_id /\ tasks[i].user_id = user.id
    THEN CHOOSE i \in 1..Len(tasks) :
           /\ tasks[i].id = task_id /\ tasks[i].user_id = user.id
           /\ \A k \in 1..(i - 1) :
                  ~(tasks[k].id = task_id /\ tasks[k].user_id = user.id)
    ELSE 0

\* list.pop(i), 1-based
Pop(list, i) == SubSeq(list, 1, i - 1) \o SubSeq(list, i + 1, Len(list))

\* sorted(list, key=lambda x: x.id): reverse=True forgotten
RECURSIVE sorted_by_id(_)
sorted_by_id(list) ==
    IF list = << >> THEN << >>
    ELSE LET i == CHOOSE j \in 1..Len(list) :
                      /\ \A k \in 1..Len(list) : list[j].id <= list[k].id
                      /\ \A k \in 1..(j - 1) : list[j].id < list[k].id
         IN << list[i] >> \o sorted_by_id(Pop(list, i))

\* sorted(list, key=lambda x: x.id, reverse=True): a stable sort, so the
\* first of the tasks with the greatest id comes first
RECURSIVE sorted_by_id_reverse(_)
sorted_by_id_reverse(list) ==
    IF list = << >> THEN << >>
    ELSE LET i == CHOOSE j \in 1..Len(list) :
                      /\ \A k \in 1..Len(list) : list[k].id <= list[j].id
                      /\ \A k \in 1..(j - 1) : list[k].id < list[j].id
         IN << list[i] >> \o sorted_by_id_reverse(Pop(list, i))

\* [task for task in tasks_db if task.user_id == user.id]
user_tasks(tasks, user) ==
    SelectSeq(tasks, LAMBDA task : task.user_id = user.id)

Unauthorized(auth, tasks, task_id) ==
    [status |-> 401, body |-> [detail |-> auth.detail],
     tasks |-> tasks, current_task_id |-> task_id]

NotFound(tasks, task_id) ==
    [status |-> 404, body |-> [detail |-> "Tarea no encontrada"],
     tasks |-> tasks, current_task_id |-> task_id]

(***************************************************************************)
(* GET /tasks                                                              *)
(***************************************************************************)
get_tasks(users, tasks, next_id, token) ==
    LET auth == get_current_user(users, token) IN
    IF auth.status # 200 THEN Unauthorized(auth, tasks, next_id)
    ELSE [status |-> 200,
          body |-> sorted_by_id_reverse(user_tasks(tasks, auth.user)),
          tasks |-> tasks, current_task_id |-> next_id]

GetTasks ==
    \E token \in Tokens :
        LET r == get_tasks(users_db, tasks_db, current_task_id, token) IN
        /\ tasks_db' = r.tasks
        /\ current_task_id' = r.current_task_id
        /\ UNCHANGED conc_vars
        /\ UNCHANGED << users_db, current_user_id, token_draws, clock,
                        logins, revoked, created, deleted >>

(***************************************************************************)
(* POST /tasks                                                             *)
(***************************************************************************)
\* id=len(tasks_db) + 1 in place of the counter
create_task_len_id(users, tasks, next_id, now, task_data, token) ==
    LET auth == get_current_user(users, token) IN
    IF auth.status # 200 THEN Unauthorized(auth, tasks, next_id)
    ELSE LET current_time == strftime(now)
             new_task == Task(Len(tasks) + 1, auth.user.id, task_data.title,
                              task_data.description, task_data.priority,
                              task_data.status, current_time, current_time)
         IN [status |-> 200, body |-> new_task,
             tasks |-> Append(tasks, new_task),
             current_task_id |-> next_id + 1]

create_task(users, tasks, next_id, now, task_data, token) ==
    LET auth == get_current_user(users, token) IN
    IF auth.status # 200 THEN Unauthorized(auth, tasks, next_id)
    ELSE LET current_time == strftime(now)
             new_task == Task(next_id, auth.user.id, task_data.title,
                              task_data.description, task_data.priority,
                              task_data.status, current_time, current_time)
         IN [status |-> 200, body |-> new_task,
             tasks |-> Append(tasks, new_task),
             current_task_id |-> next_id + 1]

CreateTask ==
    \E token \in Tokens, json \in TaskJsons :
        LET r == create_task(users_db, tasks_db, current_task_id, clock,
                             TaskCreate(json), token) IN
        /\ r.status = 200 => current_task_id <= MaxTasks
        /\ tasks_db' = r.tasks
        /\ current_task_id' = r.current_task_id
        /\ created' = IF r.status = 200
                      THEN Append(created, r.body.id) ELSE created
        /\ UNCHANGED conc_vars
        /\ UNCHANGED << users_db, current_user_id, token_draws, clock,
                        logins, revoked, deleted >>

(***************************************************************************)
(* PUT /tasks/{task_id}                                                    *)
(***************************************************************************)
\* the owner test forgotten: the first task with this id is updated
update_task_any_owner(users, tasks, next_id, now, task_id, task_data, token) ==
    LET auth == get_current_user(users, token) IN
    IF auth.status # 200 THEN Unauthorized(auth, tasks, next_id)
    ELSE IF ~\E i \in 1..Len(tasks) : tasks[i].id = task_id
         THEN NotFound(tasks, next_id)
         ELSE LET i == CHOOSE j \in 1..Len(tasks) :
                           /\ tasks[j].id = task_id
                           /\ \A k \in 1..(j - 1) : tasks[k].id # task_id
                  task == [tasks[i] EXCEPT
                              !.title = task_data.title,
                              !.description = task_data.description,
                              !.priority = task_data.priority,
                              !.status = task_data.status,
                              !.updated_at = strftime(now)]
              IN [status |-> 200, body |-> task,
                  tasks |-> [tasks EXCEPT ![i] = task],
                  current_task_id |-> next_id]

\* the task is rebuilt from the request, as create_task builds it: both
\* timestamps are set to the current time
update_task_rebuilds(users, tasks, next_id, now, task_id, task_data, token) ==
    LET auth == get_current_user(users, token) IN
    IF auth.status # 200 THEN Unauthorized(auth, tasks, next_id)
    ELSE LET i == find_task(tasks, task_id, auth.user) IN
         IF i = 0 THEN NotFound(tasks, next_id)
         ELSE LET task == Task(task_id, auth.user.id, task_data.title,
                               task_data.description, task_data.priority,
                               task_data.status, strftime(now), strftime(now))
              IN [status |-> 200, body |-> task,
                  tasks |-> [tasks EXCEPT ![i] = task],
                  current_task_id |-> next_id]

\* the current time is written to created_at, updated_at is left alone
update_task_stamps_created(users, tasks, next_id, now, task_id, task_data, token) ==
    LET auth == get_current_user(users, token) IN
    IF auth.status # 200 THEN Unauthorized(auth, tasks, next_id)
    ELSE LET i == find_task(tasks, task_id, auth.user) IN
         IF i = 0 THEN NotFound(tasks, next_id)
         ELSE LET task == [tasks[i] EXCEPT
                              !.title = task_data.title,
                              !.description = task_data.description,
                              !.priority = task_data.priority,
                              !.status = task_data.status,
                              !.created_at = strftime(now)]
              IN [status |-> 200, body |-> task,
                  tasks |-> [tasks EXCEPT ![i] = task],
                  current_task_id |-> next_id]

update_task(users, tasks, next_id, now, task_id, task_data, token) ==
    LET auth == get_current_user(users, token) IN
    IF auth.status # 200 THEN Unauthorized(auth, tasks, next_id)
    ELSE LET i == find_task(tasks, task_id, auth.user) IN
         IF i = 0 THEN NotFound(tasks, next_id)
         ELSE LET task == [tasks[i] EXCEPT
                              !.title = task_data.title,
                              !.description = task_data.description,
                              !.priority = task_data.priority,
                              !.status = task_data.status,
                              !.updated_at = strftime(now)]
              IN [status |-> 200, body |-> task,
                  tasks |-> [tasks EXCEPT ![i] = task],
                  current_task_id |-> next_id]

UpdateTask ==
    \E token \in Tokens, task_id \in TaskIds, json \in TaskJsons :
        LET r == update_task(users_db, tasks_db, current_task_id, clock,
                             task_id, TaskCreate(json), token) IN
        /\ tasks_db' = r.tasks
        /\ current_task_id' = r.current_task_id
        /\ UNCHANGED conc_vars
        /\ UNCHANGED << users_db, current_user_id, token_draws, clock,
                        logins, revoked, created, deleted >>

(***************************************************************************)
(* DELETE /tasks/{task_id}                                                 *)
(***************************************************************************)
\* 403 for a task of another account, 404 only when no task has the id
delete_task_forbidden(users, tasks, next_id, task_id, token) ==
    LET auth == get_current_user(users, token) IN
    IF auth.status # 200 THEN Unauthorized(auth, tasks, next_id)
    ELSE LET i == find_task(tasks, task_id, auth.user) IN
         IF i = 0
         THEN IF \E k \in 1..Len(tasks) : tasks[k].id = task_id
              THEN [status |-> 403, body |-> [detail |-> "Tarea ajena"],
                    tasks |-> tasks, current_task_id |-> next_id]
              ELSE NotFound(tasks, next_id)
         ELSE [status |-> 200,
               body |-> [message |-> "Tarea eliminada", task |-> tasks[i]],
               tasks |-> Pop(tasks, i),
               current_task_id |-> next_id]

\* the task is returned but not popped
delete_task_keeps(users, tasks, next_id, task_id, token) ==
    LET auth == get_current_user(users, token) IN
    IF auth.status # 200 THEN Unauthorized(auth, tasks, next_id)
    ELSE LET i == find_task(tasks, task_id, auth.user) IN
         IF i = 0 THEN NotFound(tasks, next_id)
         ELSE [status |-> 200,
               body |-> [message |-> "Tarea eliminada", task |-> tasks[i]],
               tasks |-> tasks,
               current_task_id |-> next_id]

\* tasks_db.pop() without the index: the last task is removed
delete_task_pop_last(users, tasks, next_id, task_id, token) ==
    LET auth == get_current_user(users, token) IN
    IF auth.status # 200 THEN Unauthorized(auth, tasks, next_id)
    ELSE LET i == find_task(tasks, task_id, auth.user) IN
         IF i = 0 THEN NotFound(tasks, next_id)
         ELSE [status |-> 200,
               body |-> [message |-> "Tarea eliminada",
                         task |-> tasks[Len(tasks)]],
               tasks |-> Pop(tasks, Len(tasks)),
               current_task_id |-> next_id]

delete_task(users, tasks, next_id, task_id, token) ==
    LET auth == get_current_user(users, token) IN
    IF auth.status # 200 THEN Unauthorized(auth, tasks, next_id)
    ELSE LET i == find_task(tasks, task_id, auth.user) IN
         IF i = 0 THEN NotFound(tasks, next_id)
         ELSE [status |-> 200,
               body |-> [message |-> "Tarea eliminada", task |-> tasks[i]],
               tasks |-> Pop(tasks, i),
               current_task_id |-> next_id]

DeleteTask ==
    \E token \in Tokens, task_id \in TaskIds :
        LET r == delete_task(users_db, tasks_db, current_task_id,
                             task_id, token) IN
        /\ tasks_db' = r.tasks
        /\ current_task_id' = r.current_task_id
        /\ deleted' = IF r.status = 200
                      THEN deleted \cup {[id |-> r.body.task.id,
                                          at |-> Len(created)]}
                      ELSE deleted
        /\ UNCHANGED conc_vars
        /\ UNCHANGED << users_db, current_user_id, token_draws, clock,
                        logins, revoked, created >>

(***************************************************************************)
(* GET /tasks/{task_id}                                                    *)
(***************************************************************************)
\* the task is looked up by id before the token is resolved
get_task_lookup_first(users, tasks, next_id, task_id, token) ==
    IF ~\E i \in 1..Len(tasks) : tasks[i].id = task_id
    THEN NotFound(tasks, next_id)
    ELSE LET auth == get_current_user(users, token) IN
         IF auth.status # 200 THEN Unauthorized(auth, tasks, next_id)
         ELSE LET i == find_task(tasks, task_id, auth.user) IN
              IF i = 0 THEN NotFound(tasks, next_id)
              ELSE [status |-> 200, body |-> tasks[i],
                    tasks |-> tasks, current_task_id |-> next_id]

get_task(users, tasks, next_id, task_id, token) ==
    LET auth == get_current_user(users, token) IN
    IF auth.status # 200 THEN Unauthorized(auth, tasks, next_id)
    ELSE LET i == find_task(tasks, task_id, auth.user) IN
         IF i = 0 THEN NotFound(tasks, next_id)
         ELSE [status |-> 200, body |-> tasks[i],
               tasks |-> tasks, current_task_id |-> next_id]

GetTask ==
    \E token \in Tokens, task_id \in TaskIds :
        LET r == get_task(users_db, tasks_db, current_task_id,
                          task_id, token) IN
        /\ tasks_db' = r.tasks
        /\ current_task_id' = r.current_task_id
        /\ UNCHANGED conc_vars
        /\ UNCHANGED << users_db, current_user_id, token_draws, clock,
                        logins, revoked, created, deleted >>

(***************************************************************************)
(* The wall clock advances between requests.                               *)
(***************************************************************************)
Tick ==
    /\ clock < MaxClock
    /\ clock' = clock + 1
    /\ UNCHANGED conc_vars
    /\ UNCHANGED << users_db, tasks_db, current_user_id, current_task_id,
                    token_draws, logins, revoked, created, deleted >>

Init ==
    /\ users_db = << >>
    /\ tasks_db = << >>
    /\ current_user_id = 1
    /\ current_task_id = 1
    /\ token_draws = 0
    /\ clock = StartClock
    /\ logins = << >>
    /\ revoked = {}
    /\ created = << >>
    /\ deleted = {}
    /\ requests = << >>
    /\ running = 0

Next ==
    \/ Register
    \/ Login
    \/ Logout
    \/ GetTasks
    \/ CreateTask
    \/ UpdateTask
    \/ DeleteTask
    \/ GetTask
    \/ Tick

Spec == Init /\ [][Next]_vars

(***************************************************************************)
(* The handlers statement by statement, under the asyncio event loop.      *)
(*                                                                         *)
(* Several requests are in flight at once.  uvicorn runs the handlers as   *)
(* coroutines of one event loop; a coroutine keeps the loop until it       *)
(* awaits or returns, and no handler awaits.  The state the requests find  *)
(* is the one after register, login and one create.                        *)
(***************************************************************************)
ConcUsers ==
    LET ann == [email |-> "a@x.com", name |-> "Ann", password |-> "pw1"]
        reg == register(<< >>, 1, ann)
    IN login(reg.users, 0, [email |-> ann.email, password |-> ann.password]).users

ConcToken == token_hex(0)

ConcTasks ==
    create_task(ConcUsers, << >>, 1, StartClock,
                TaskCreate([title |-> "Buy milk"]), ConcToken).tasks

\* the requests issued at once
ConcRequests ==
    << [op |-> "create", token |-> ConcToken, json |-> [title |-> "Buy milk"]],
       [op |-> "create", token |-> ConcToken,
        json |-> [title |-> "Call mom", description |-> "today",
                  priority |-> "alta", status |-> "done"]],
       [op |-> "update", token |-> ConcToken, task_id |-> 1,
        json |-> [title |-> "Call mom", description |-> "today",
                  priority |-> "alta", status |-> "done"]],
       [op |-> "get", token |-> ConcToken, task_id |-> 1],
       [op |-> "list", token |-> ConcToken],
       [op |-> "delete", token |-> ConcToken, task_id |-> 1] >>

ConcIds == 1..Len(ConcRequests)

\* a request that was received and whose coroutine has not run yet
Ready ==
    [pc |-> "ready", user |-> None, i |-> 0, new_task |-> None,
     status |-> 0, body |-> None, start |-> None, atomic |-> FALSE]

\* threads in place of the event loop (handlers declared with `def` run in
\* the thread pool): any request may execute its next statement
Scheduled_threads(r, run) == TRUE

\* the event loop executes a statement of r when r is the coroutine it is
\* running, or when it is running none and picks r
Scheduled(r, run) == run = 0 \/ run = r

\* the first statement of a handler after get_current_user
FirstLabel(op) ==
    CASE op = "create" -> "build"
      [] op = "update" -> "find"
      [] op = "delete" -> "find"
      [] op = "get" -> "find"
      [] op = "list" -> "list"

\* the handler of this request run as one step from the state the request
\* started in
Sequential(req, start, now) ==
    CASE req.op = "create" ->
           create_task(users_db, start.tasks, start.next_id, now,
                       TaskCreate(req.json), req.token)
      [] req.op = "update" ->
           update_task(users_db, start.tasks, start.next_id, now,
                       req.task_id, TaskCreate(req.json), req.token)
      [] req.op = "delete" ->
           delete_task(users_db, start.tasks, start.next_id,
                       req.task_id, req.token)
      [] req.op = "get" ->
           get_task(users_db, start.tasks, start.next_id,
                    req.task_id, req.token)
      [] req.op = "list" ->
           get_tasks(users_db, start.tasks, start.next_id, req.token)

\* the request returns: its response is recorded, with whether response and
\* state are those of the handler run as one step, and the loop is free
Return(r, status, body, tasks, next_id) ==
    LET e == Sequential(ConcRequests[r], requests[r].start, clock) IN
    /\ requests' = [requests EXCEPT ![r] =
                       [@ EXCEPT !.pc = "done", !.status = status,
                                 !.body = body,
                                 !.atomic = /\ e.status = status
                                            /\ e.body = body
                                            /\ e.tasks = tasks
                                            /\ e.current_task_id = next_id]]
    /\ running' = 0

\* the request moves to its next statement and keeps the loop
Goto(r, label) ==
    /\ requests' = [requests EXCEPT ![r].pc = label]
    /\ running' = r

ConcFrame ==
    UNCHANGED << users_db, current_user_id, token_draws, clock,
                 logins, revoked, created, deleted >>

\* user = get_current_user(token), the first statement of every handler
ConcStart ==
    \E r \in ConcIds :
        LET auth == get_current_user(users_db, ConcRequests[r].token) IN
        /\ requests[r].pc = "ready"
        /\ Scheduled(r, running)
        /\ IF auth.status # 200
           THEN /\ requests' = [requests EXCEPT ![r] =
                                   [@ EXCEPT !.pc = "done", !.status = 401,
                                             !.body = [detail |-> auth.detail],
                                             !.atomic = TRUE]]
                /\ running' = 0
           ELSE /\ requests' = [requests EXCEPT ![r] =
                                   [@ EXCEPT
                                       !.pc = FirstLabel(ConcRequests[r].op),
                                       !.user = auth.user,
                                       !.start = [tasks |-> tasks_db,
                                                  next_id |-> current_task_id]]]
                /\ running' = r
        /\ UNCHANGED << tasks_db, current_task_id >>
        /\ ConcFrame

At(r, op, label) ==
    /\ ConcRequests[r].op = op
    /\ requests[r].pc = label
    /\ Scheduled(r, running)

\* create_task: current_time = ...; new_task = Task(id=current_task_id, ...)
CreateBuild ==
    \E r \in ConcIds :
        LET task_data == TaskCreate(ConcRequests[r].json)
            current_time == strftime(clock)
        IN /\ At(r, "create", "build")
           /\ requests' = [requests EXCEPT ![r] =
                  [@ EXCEPT !.pc = "append",
                            !.new_task =
                                Task(current_task_id, requests[r].user.id,
                                     task_data.title, task_data.description,
                                     task_data.priority, task_data.status,
                                     current_time, current_time)]]
           /\ running' = r
           /\ UNCHANGED << tasks_db, current_task_id >>
           /\ ConcFrame

\* create_task: tasks_db.append(new_task)
CreateAppend ==
    \E r \in ConcIds :
        /\ At(r, "create", "append")
        /\ tasks_db' = Append(tasks_db, requests[r].new_task)
        /\ Goto(r, "incr")
        /\ UNCHANGED current_task_id
        /\ ConcFrame

\* create_task: current_task_id += 1; return new_task
CreateIncr ==
    \E r \in ConcIds :
        /\ At(r, "create", "incr")
        /\ current_task_id' = current_task_id + 1
        /\ Return(r, 200, requests[r].new_task, tasks_db, current_task_id + 1)
        /\ UNCHANGED tasks_db
        /\ ConcFrame

\* update_task and delete_task: the loop that looks for the task
WriteFind ==
    \E r \in ConcIds :
        LET i == find_task(tasks_db, ConcRequests[r].task_id, requests[r].user)
        IN /\ \/ At(r, "update", "find")
              \/ At(r, "delete", "find")
           /\ IF i = 0
              THEN Return(r, 404, [detail |-> "Tarea no encontrada"],
                          tasks_db, current_task_id)
              ELSE /\ requests' = [requests EXCEPT ![r] =
                          [@ EXCEPT !.i = i,
                                    !.pc = IF ConcRequests[r].op = "update"
                                           THEN "title" ELSE "pop"]]
                   /\ running' = r
           /\ UNCHANGED << tasks_db, current_task_id >>
           /\ ConcFrame

\* task.<field> = value, on the task object the loop found: the stored task
\* with its id and owner, if it is still stored
Assign(tasks, task_id, user, field, value) ==
    LET i == find_task(tasks, task_id, user) IN
    IF i = 0 THEN tasks
    ELSE [tasks EXCEPT ![i] = [f \in DOMAIN tasks[i] |->
                                  IF f = field THEN value ELSE tasks[i][f]]]

\* update_task: one of the four assignments of the request's fields
UpdateAssign ==
    \E r \in ConcIds, field \in {"title", "description", "priority", "status"} :
        LET task_data == TaskCreate(ConcRequests[r].json) IN
        /\ At(r, "update", field)
        /\ tasks_db' = Assign(tasks_db, ConcRequests[r].task_id,
                              requests[r].user, field, task_data[field])
        /\ Goto(r, CASE field = "title" -> "description"
                     [] field = "description" -> "priority"
                     [] field = "priority" -> "status"
                     [] field = "status" -> "updated_at")
        /\ UNCHANGED current_task_id
        /\ ConcFrame

\* update_task: task.updated_at = ...; return task
UpdateStamp ==
    \E r \in ConcIds :
        LET tasks == Assign(tasks_db, ConcRequests[r].task_id,
                            requests[r].user, "updated_at", strftime(clock))
            i == find_task(tasks, ConcRequests[r].task_id, requests[r].user)
        IN /\ At(r, "update", "updated_at")
           /\ tasks_db' = tasks
           /\ Return(r, 200,
                     IF i = 0 THEN [detail |-> "task no longer stored"]
                     ELSE tasks[i],
                     tasks, current_task_id)
           /\ UNCHANGED current_task_id
           /\ ConcFrame

\* delete_task: deleted_task = tasks_db.pop(i); return
DeletePop ==
    \E r \in ConcIds :
        LET i == requests[r].i IN
        /\ At(r, "delete", "pop")
        /\ IF i <= Len(tasks_db)
           THEN /\ tasks_db' = Pop(tasks_db, i)
                /\ Return(r, 200, [message |-> "Tarea eliminada",
                                   task |-> tasks_db[i]],
                          Pop(tasks_db, i), current_task_id)
           ELSE /\ tasks_db' = tasks_db
                /\ Return(r, 500, [detail |-> "IndexError"],
                          tasks_db, current_task_id)
        /\ UNCHANGED current_task_id
        /\ ConcFrame

\* get_task: the loop and its return
GetFind ==
    \E r \in ConcIds :
        LET i == find_task(tasks_db, ConcRequests[r].task_id, requests[r].user)
        IN /\ At(r, "get", "find")
           /\ IF i = 0
              THEN Return(r, 404, [detail |-> "Tarea no encontrada"],
                          tasks_db, current_task_id)
              ELSE Return(r, 200, tasks_db[i], tasks_db, current_task_id)
           /\ UNCHANGED << tasks_db, current_task_id >>
           /\ ConcFrame

\* get_tasks: the comprehension and the sort
ListAll ==
    \E r \in ConcIds :
        /\ At(r, "list", "list")
        /\ Return(r, 200,
                  sorted_by_id_reverse(user_tasks(tasks_db, requests[r].user)),
                  tasks_db, current_task_id)
        /\ UNCHANGED << tasks_db, current_task_id >>
        /\ ConcFrame

ConcInit ==
    /\ users_db = ConcUsers
    /\ tasks_db = ConcTasks
    /\ current_user_id = 2
    /\ current_task_id = 2
    /\ token_draws = 1
    /\ clock = StartClock + 1
    /\ logins = << [email |-> "a@x.com", token |-> ConcToken] >>
    /\ revoked = {}
    /\ created = << 1 >>
    /\ deleted = {}
    /\ requests = [r \in ConcIds |-> Ready]
    /\ running = 0

ConcNext ==
    \/ ConcStart
    \/ CreateBuild
    \/ CreateAppend
    \/ CreateIncr
    \/ WriteFind
    \/ UpdateAssign
    \/ UpdateStamp
    \/ DeletePop
    \/ GetFind
    \/ ListAll

SpecConc == ConcInit /\ [][ConcNext]_vars

(***************************************************************************)
(* Properties.                                                             *)
(***************************************************************************)
\* what a task operation answered and left behind: the status, the error
\* detail (none on success), the task list and the id counter
Outcome(r) ==
    [status |-> r.status,
     detail |-> IF r.status = 200 THEN None ELSE r.body.detail,
     tasks |-> r.tasks,
     current_task_id |-> r.current_task_id]

\* the outcomes of the five task operations called with this token, over
\* all their other inputs
TaskOpResults(users, tasks, token) ==
    {Outcome(get_tasks(users, tasks, current_task_id, token))}
    \cup {Outcome(create_task(users, tasks, current_task_id, clock,
                              TaskCreate(json), token)) : json \in TaskJsons}
    \cup {Outcome(get_task(users, tasks, current_task_id, id, token)) :
              id \in TaskIds}
    \cup {Outcome(update_task(users, tasks, current_task_id, clock, id,
                              TaskCreate(json), token)) :
              id \in TaskIds, json \in TaskJsons}
    \cup {Outcome(delete_task(users, tasks, current_task_id, id, token)) :
              id \in TaskIds}

TaskOpStatuses(users, tasks, token) ==
    {r.status : r \in TaskOpResults(users, tasks, token)}

\* some account holds this token
Held(users, token) == \E i \in 1..Len(users) : TokenIs(users[i].value, token)

\* the identity of the account registered under this email
Account(users, email) ==
    User(DictGet(users, email).id, email, DictGet(users, email).name)

\* login i was followed by another login of the same account
Superseded(i) ==
    \E j \in (i + 1)..Len(logins) : logins[j].email = logins[i].email

\* C1: the token of an account's latest login resolves to that account (until
\* it is logged out); the token of every earlier login of the account is
\* refused with 401 by get_current_user, by every task operation and by
\* logout.
C1_SecondLoginInvalidatesFirst ==
    \A i \in 1..Len(logins) :
        LET T == logins[i].token IN
        /\ (~Superseded(i) /\ T \notin revoked) =>
               get_current_user(users_db, T) =
                   [status |-> 200, user |-> Account(users_db, logins[i].email)]
        /\ Superseded(i) =>
               /\ get_current_user(users_db, T).status = 401
               /\ TaskOpStatuses(users_db, tasks_db, T) = {401}
               /\ logout(users_db, T).status = 401

\* an account has logged in twice and holds the second token
C1_Witness ==
    \E i, j \in 1..Len(logins) :
        /\ i < j
        /\ logins[i].email = logins[j].email
        /\ logins[i].token # logins[j].token
        /\ get_current_user(users_db, logins[j].token).status = 200

\* C2: no two accounts hold the same token, and a token resolves to no
\* account other than the one whose login returned it.
C2_TokenHeldByOneAccount ==
    /\ \A i, j \in 1..Len(users_db) :
           (/\ i # j
            /\ "token" \in DOMAIN users_db[i].value
            /\ "token" \in DOMAIN users_db[j].value)
           => users_db[i].value.token # users_db[j].value.token
    /\ \A k \in 1..Len(logins) :
           LET r == get_current_user(users_db, logins[k].token) IN
           r.status = 200 => r.user = Account(users_db, logins[k].email)

\* two accounts hold a token each
C2_Witness ==
    \E i, j \in 1..Len(users_db) :
        /\ i # j
        /\ "token" \in DOMAIN users_db[i].value
        /\ "token" \in DOMAIN users_db[j].value

\* C3: an update of a task with the valid token of an account that does not
\* own it answers 404 and leaves the task store and the id counter as they
\* were.
C3_ForeignUpdateRefused ==
    \A token \in Tokens, i \in 1..Len(tasks_db), json \in TaskJsons :
        LET auth == get_current_user(users_db, token)
            r == update_task(users_db, tasks_db, current_task_id, clock,
                             tasks_db[i].id, TaskCreate(json), token)
        IN (auth.status = 200 /\ tasks_db[i].user_id # auth.user.id) =>
               /\ r.status = 404
               /\ r.body = [detail |-> "Tarea no encontrada"]
               /\ r.tasks = tasks_db
               /\ r.current_task_id = current_task_id

\* account B holds a token, account A owns a task, and B's update of it with
\* fields that differ from the stored ones is refused
C3_Witness ==
    \E token \in Tokens, i \in 1..Len(tasks_db), json \in TaskJsons :
        LET auth == get_current_user(users_db, token) IN
        /\ auth.status = 200
        /\ tasks_db[i].user_id # auth.user.id
        /\ \E a \in 1..Len(users_db) : users_db[a].value.id = tasks_db[i].user_id
        /\ TaskCreate(json).title # tasks_db[i].title
        /\ strftime(clock) # tasks_db[i].updated_at
        /\ update_task(users_db, tasks_db, current_task_id, clock,
                       tasks_db[i].id, TaskCreate(json), token).status = 404

\* C4: list with a valid token returns every stored task of the token's
\* account, each once, no task of another account, by strictly descending id.
C4_ListOwnTasksDescending ==
    \A token \in Tokens :
        LET auth == get_current_user(users_db, token)
            r == get_tasks(users_db, tasks_db, current_task_id, token)
        IN auth.status = 200 =>
               LET own == {i \in 1..Len(tasks_db) :
                               tasks_db[i].user_id = auth.user.id}
               IN /\ r.status = 200
                  /\ Len(r.body) = Cardinality(own)
                  /\ {r.body[k] : k \in 1..Len(r.body)} =
                         {tasks_db[i] : i \in own}
                  /\ \A k \in 1..(Len(r.body) - 1) :
                         r.body[k].id > r.body[k + 1].id
                  /\ r.tasks = tasks_db

\* an account lists two tasks of its own, in an order that is not the
\* store's
C4_Witness ==
    \E token \in Tokens :
        LET r == get_tasks(users_db, tasks_db, current_task_id, token) IN
        /\ r.status = 200
        /\ Len(r.body) >= 2
        /\ r.body # user_tasks(tasks_db, get_current_user(users_db, token).user)

\* C5: on the id of a task that was deleted, get, update and delete answer
\* 404 to every caller with a valid token (401 to the others), whatever
\* happened since the delete.
C5_DeletedStaysNotFound ==
    \A d \in deleted, token \in Tokens :
        LET auth == get_current_user(users_db, token)
            expected == IF auth.status = 200 THEN 404 ELSE 401
        IN /\ get_task(users_db, tasks_db, current_task_id,
                       d.id, token).status = expected
           /\ delete_task(users_db, tasks_db, current_task_id,
                          d.id, token).status = expected
           /\ \A json \in TaskJsons :
                  update_task(users_db, tasks_db, current_task_id, clock,
                              d.id, TaskCreate(json), token).status = expected

\* a task was deleted, a task was created after that and is stored, and two
\* accounts hold tokens
C5_Witness ==
    /\ \E d \in deleted : d.at < Len(created)
    /\ tasks_db # << >>
    /\ \E t1, t2 \in Tokens :
           /\ t1 # t2
           /\ Held(users_db, t1)
           /\ Held(users_db, t2)

\* C6: stored tasks have pairwise distinct ids; the n-th successful create
\* returned id n, so every id is greater than all ids issued before it and
\* none is issued twice, also after deletes; the counter is one more than
\* the number of successful creates, and an operation that fails leaves it
\* as it was.
C6_TaskIdsUniqueSequential ==
    /\ \A i, j \in 1..Len(tasks_db) :
           i # j => tasks_db[i].id # tasks_db[j].id
    /\ \A n \in 1..Len(created) : created[n] = n
    /\ \A i \in 1..Len(tasks_db) : tasks_db[i].id \in 1..Len(created)
    /\ \A d \in deleted : d.id \in 1..d.at
    /\ current_task_id = Len(created) + 1
    /\ \A token \in Tokens :
           /\ \A json \in TaskJsons :
                  LET r == create_task(users_db, tasks_db, current_task_id,
                                       clock, TaskCreate(json), token)
                  IN r.status = 200 =>
                         /\ \A n \in 1..Len(created) : r.body.id > created[n]
                         /\ \A k \in 1..Len(tasks_db) :
                                r.tasks[k].id = tasks_db[k].id
                         /\ r.current_task_id = current_task_id + 1
           /\ \A r \in TaskOpResults(users_db, tasks_db, token) :
                  r.status # 200 => r.current_task_id = current_task_id

\* two creates have succeeded, the second after the delete of the first task
C6_Witness ==
    /\ Len(created) >= 2
    /\ \E d \in deleted :
           /\ d.at < Len(created)
           /\ \E i \in 1..Len(tasks_db) : tasks_db[i].id > d.id

\* C7: registering an email that is registered answers 400 and leaves the
\* account (id, name, password digest, token) and the account-id counter as
\* they were; every token resolves as before and every password verifies as
\* before.
C7_DuplicateRegisterRefused ==
    \A user_data \in UserCreates :
        LET r == register(users_db, current_user_id, user_data) IN
        DictHas(users_db, user_data.email) =>
            /\ r.status = 400
            /\ r.body = [detail |-> "El usuario ya existe"]
            /\ Len(r.users) = Len(users_db)
            /\ DictGet(r.users, user_data.email) =
                   DictGet(users_db, user_data.email)
            /\ r.users = users_db
            /\ r.current_user_id = current_user_id
            /\ \A token \in Tokens :
                   get_current_user(r.users, token) =
                       get_current_user(users_db, token)
            /\ \A password \in Passwords :
                   verify_user(r.users, user_data.email, password) =
                       verify_user(users_db, user_data.email, password)

\* an account that holds a token is registered again under another name and
\* another password
C7_Witness ==
    \E user_data \in UserCreates :
        /\ DictHas(users_db, user_data.email)
        /\ "token" \in DOMAIN DictGet(users_db, user_data.email)
        /\ DictGet(users_db, user_data.email).name # user_data.name
        /\ DictGet(users_db, user_data.email).password_hash #
               hash_password(user_data.password)
        /\ register(users_db, current_user_id, user_data).status = 400

\* C8: with a token that no account holds, each task operation answers 401
\* and leaves the task list and the task-id counter as they were, whether
\* or not the task id exists.
C8_InvalidTokenShortCircuits ==
    \A token \in Tokens :
        ~Held(users_db, token) =>
            \A r \in TaskOpResults(users_db, tasks_db, token) :
                /\ r.status = 401
                /\ r.detail = "Token invalido"
                /\ r.tasks = tasks_db
                /\ r.current_task_id = current_task_id

\* a token that no account holds is used while the store holds a task and
\* one of the task ids is the id of no task
C8_Witness ==
    \E token \in Tokens :
        /\ ~Held(users_db, token)
        /\ tasks_db # << >>
        /\ \E id \in TaskIds : \A i \in 1..Len(tasks_db) : tasks_db[i].id # id
        /\ \A id \in TaskIds :
               get_task(users_db, tasks_db, current_task_id,
                        id, token).status = 401

\* what logout answers and leaves behind in this state
C9_LogoutEffect ==
    \A token \in Tokens :
        LET r == logout(users_db, token) IN
        IF Held(users_db, token)
        THEN /\ r.status = 200
             /\ Len(r.users) = Len(users_db)
             /\ \A i \in 1..Len(users_db) :
                    IF TokenIs(users_db[i].value, token)
                    THEN /\ r.users[i].key = users_db[i].key
                         /\ r.users[i].value = PopToken(users_db[i].value)
                    ELSE r.users[i] = users_db[i]
             /\ get_current_user(r.users, token).status = 401
             /\ TaskOpStatuses(r.users, tasks_db, token) = {401}
             /\ logout(r.users, token).status = 401
        ELSE /\ r.status = 401
             /\ r.body = [detail |-> "Token invalido"]
             /\ r.users = users_db

\* a token that was logged out is refused ever after
C9_RevokedStaysInvalid ==
    \A token \in revoked :
        /\ get_current_user(users_db, token).status = 401
        /\ TaskOpStatuses(users_db, tasks_db, token) = {401}
        /\ logout(users_db, token).status = 401

\* a step in which a logout succeeds changes no task, no counter and no
\* account but the one that held the token
C9_LogoutFrame ==
    revoked' # revoked =>
        /\ tasks_db' = tasks_db
        /\ current_task_id' = current_task_id
        /\ current_user_id' = current_user_id
        /\ Len(users_db') = Len(users_db)
        /\ \A i \in 1..Len(users_db) :
               (\A token \in revoked' \ revoked :
                    ~TokenIs(users_db[i].value, token))
               => users_db'[i] = users_db[i]

\* C9: logout with a held token answers 200 and clears that account's token
\* only, after which the token is refused with 401 by every task operation
\* and by logout, for good; logout with a token nobody holds answers 401 and
\* changes nothing; the other accounts and the tasks stay as they were.
C9_LogoutRevokesToken ==
    /\ [](C9_LogoutEffect /\ C9_RevokedStaysInvalid)
    /\ [][C9_LogoutFrame]_vars

\* a token was logged out while another account holds a token and the store
\* holds a task
C9_Witness ==
    /\ revoked # {}
    /\ \E token \in Tokens : token \notin revoked /\ Held(users_db, token)
    /\ tasks_db # << >>

\* C10 as stated: a task created from a body without priority and status
\* has priority "medium" and status "pending".
C10_EnglishDefaults ==
    \A token \in Tokens, json \in TaskJsons :
        LET r == create_task(users_db, tasks_db, current_task_id, clock,
                             TaskCreate(json), token)
        IN (/\ r.status = 200
            /\ "priority" \notin DOMAIN json
            /\ "status" \notin DOMAIN json)
           => /\ r.body.priority = "medium"
              /\ r.body.status = "pending"

\* C10, amended: a task created from a body without priority and status has
\* priority "media" and status "pendiente", in the response and in the store.
C10_SpanishDefaults ==
    \A token \in Tokens, json \in TaskJsons :
        LET r == create_task(users_db, tasks_db, current_task_id, clock,
                             TaskCreate(json), token)
        IN (/\ r.status = 200
            /\ "priority" \notin DOMAIN json
            /\ "status" \notin DOMAIN json)
           => /\ r.body.priority = "media"
              /\ r.body.status = "pendiente"
              /\ r.tasks[Len(r.tasks)] = r.body

\* the first task, created from {title: "Buy milk"} alone, is in the store
\* as it was created
C10_Witness ==
    \E i \in 1..Len(tasks_db) :
        /\ tasks_db[i].id = 1
        /\ tasks_db[i].title = "Buy milk"
        /\ tasks_db[i].description = None
        /\ tasks_db[i].priority = "media"
        /\ tasks_db[i].status = "pendiente"
        /\ tasks_db[i].created_at = tasks_db[i].updated_at
        /\ \E json \in TaskJsons : DOMAIN json = {"title"}

\* C11: after a successful create, a get of the returned id with the same
\* token answers 200 with the task create returned: same id, owner, title,
\* description, priority, status, created and updated timestamps.
C11_GetAfterCreate ==
    \A token \in Tokens, json \in TaskJsons :
        LET c == create_task(users_db, tasks_db, current_task_id, clock,
                             TaskCreate(json), token)
            g == get_task(users_db, c.tasks, c.current_task_id,
                          c.body.id, token)
        IN c.status = 200 =>
               /\ g.status = 200
               /\ g.body = c.body
               /\ g.body.id = current_task_id
               /\ g.body.user_id = get_current_user(users_db, token).user.id
               /\ g.body.title = TaskCreate(json).title
               /\ g.body.description = TaskCreate(json).description
               /\ g.body.priority = TaskCreate(json).priority
               /\ g.body.status = TaskCreate(json).status
               /\ g.body.created_at = strftime(clock)
               /\ g.body.updated_at = strftime(clock)

\* the owner of a stored task has just created a second one, and the get of
\* the second returns it
C11_Witness ==
    /\ Len(tasks_db) = 2
    /\ tasks_db[2].id = created[Len(created)]
    /\ tasks_db[2].user_id = tasks_db[1].user_id
    /\ tasks_db[2].created_at = tasks_db[2].updated_at
    /\ \E token \in Tokens :
           LET g == get_task(users_db, tasks_db, current_task_id,
                             tasks_db[2].id, token)
           IN g.status = 200 /\ g.body = tasks_db[2]

\* the task with this id exists and belongs to another account than user's
Foreign(tasks, id, user) ==
    \E i \in 1..Len(tasks) : tasks[i].id = id /\ tasks[i].user_id # user.id

\* no task has this id
Missing(tasks, id) == \A i \in 1..Len(tasks) : tasks[i].id # id

\* C12: to a caller with a valid token, get, update and delete answer the
\* same on the id of another account's task as on an id that no task has:
\* 404 "Tarea no encontrada", with the task list and the id counter as they
\* were.
C12_ForeignLooksMissing ==
    \A token \in Tokens, id1 \in TaskIds, id2 \in 1..(MaxTasks + 1) :
        LET auth == get_current_user(users_db, token)
            refused == [status |-> 404, detail |-> "Tarea no encontrada",
                        tasks |-> tasks_db,
                        current_task_id |-> current_task_id]
        IN (/\ auth.status = 200
            /\ Foreign(tasks_db, id1, auth.user)
            /\ Missing(tasks_db, id2))
           => /\ Outcome(get_task(users_db, tasks_db, current_task_id,
                                  id1, token)) = refused
              /\ Outcome(get_task(users_db, tasks_db, current_task_id,
                                  id2, token)) = refused
              /\ Outcome(delete_task(users_db, tasks_db, current_task_id,
                                     id1, token)) = refused
              /\ Outcome(delete_task(users_db, tasks_db, current_task_id,
                                     id2, token)) = refused
              /\ \A json \in TaskJsons :
                     /\ Outcome(update_task(users_db, tasks_db,
                                            current_task_id, clock, id1,
                                            TaskCreate(json), token)) = refused
                     /\ Outcome(update_task(users_db, tasks_db,
                                            current_task_id, clock, id2,
                                            TaskCreate(json), token)) = refused

\* a caller with a valid token faces a task of another account and an id
\* whose task was deleted
C12_Witness ==
    \E token \in Tokens, id1 \in TaskIds, d \in deleted :
        LET auth == get_current_user(users_db, token) IN
        /\ auth.status = 200
        /\ Foreign(tasks_db, id1, auth.user)
        /\ Missing(tasks_db, d.id)
        /\ delete_task(users_db, tasks_db, current_task_id,
                       id1, token).status = 404

\* C13: a login with an unregistered email or with a password whose digest
\* is not the stored one answers 401 "Credenciales invalidas", draws no
\* token and leaves every account as it was, so every token resolves as
\* before.
C13_FailedLoginChangesNothing ==
    \A login_data \in LoginRequests :
        LET r == login(users_db, token_draws, login_data) IN
        (\/ ~DictHas(users_db, login_data.email)
         \/ DictGet(users_db, login_data.email).password_hash #
                hash_password(login_data.password))
        => /\ r.status = 401
           /\ r.body = [detail |-> "Credenciales invalidas"]
           /\ r.users = users_db
           /\ r.token_draws = token_draws
           /\ \A token \in Tokens :
                  get_current_user(r.users, token) =
                      get_current_user(users_db, token)

\* an account that holds a token is logged into with a wrong password, and
\* one of the login emails is not registered
C13_Witness ==
    /\ \E login_data \in LoginRequests :
           /\ DictHas(users_db, login_data.email)
           /\ "token" \in DOMAIN DictGet(users_db, login_data.email)
           /\ DictGet(users_db, login_data.email).password_hash #
                  hash_password(login_data.password)
           /\ login(users_db, token_draws, login_data).status = 401
    /\ \E login_data \in LoginRequests :
           /\ ~DictHas(users_db, login_data.email)
           /\ login(users_db, token_draws, login_data).status = 401

\* the accounts are numbered in the order of their registration, the next
\* registration gets the next number
C14_AccountIdsInOrder ==
    /\ \A n \in 1..Len(users_db) : users_db[n].value.id = n
    /\ \A i, j \in 1..Len(users_db) :
           i # j => /\ users_db[i].value.id # users_db[j].value.id
                    /\ users_db[i].key # users_db[j].key
    /\ current_user_id = Len(users_db) + 1
    /\ \A user_data \in UserCreates :
           LET r == register(users_db, current_user_id, user_data) IN
           r.status = 200 =>
               /\ r.body.user_id = Len(users_db) + 1
               /\ Len(r.users) = Len(users_db) + 1
               /\ r.users[Len(r.users)].key = user_data.email
               /\ r.users[Len(r.users)].value.id = r.body.user_id
               /\ \A k \in 1..Len(users_db) : r.users[k] = users_db[k]

\* no step changes the email or the id of an account
C14_AccountIdKept ==
    \A i \in 1..Len(users_db) :
        /\ i <= Len(users_db')
        /\ users_db'[i].key = users_db[i].key
        /\ users_db'[i].value.id = users_db[i].value.id

\* C14: the n-th successful registration returns id n and stores it in the
\* new account, no two accounts share an id, and no step changes the id of
\* an account.
C14_AccountIdsSequential ==
    /\ []C14_AccountIdsInOrder
    /\ [][C14_AccountIdKept]_vars

\* two accounts are registered, and the second has logged in and out since
C14_Witness ==
    /\ Len(users_db) = 2
    /\ users_db[1].value.id = 1
    /\ users_db[2].value.id = 2
    /\ \E k \in 1..Len(logins) :
           /\ logins[k].email = users_db[2].key
           /\ logins[k].token \in revoked

\* C15: a successful update leaves the list as long as it was, leaves every
\* other task as it was, keeps the id, owner and created timestamp of the
\* task at its position, sets its title, description, priority and status to
\* the request's and its updated timestamp to the current minute, and
\* returns it; the id counter stays.
C15_UpdateChangesOnlyItsFields ==
    \A token \in Tokens, id \in TaskIds, json \in TaskJsons :
        LET r == update_task(users_db, tasks_db, current_task_id, clock,
                             id, TaskCreate(json), token)
        IN r.status = 200 =>
               /\ Len(r.tasks) = Len(tasks_db)
               /\ r.current_task_id = current_task_id
               /\ \E i \in 1..Len(tasks_db) :
                      /\ tasks_db[i].id = id
                      /\ \A k \in 1..Len(tasks_db) :
                             k # i => r.tasks[k] = tasks_db[k]
                      /\ r.tasks[i].id = tasks_db[i].id
                      /\ r.tasks[i].user_id = tasks_db[i].user_id
                      /\ r.tasks[i].created_at = tasks_db[i].created_at
                      /\ r.tasks[i].title = TaskCreate(json).title
                      /\ r.tasks[i].description = TaskCreate(json).description
                      /\ r.tasks[i].priority = TaskCreate(json).priority
                      /\ r.tasks[i].status = TaskCreate(json).status
                      /\ r.tasks[i].updated_at = strftime(clock)
                      /\ r.body = r.tasks[i]

\* the first of two stored tasks was updated in a later minute than it was
\* created in, and its owner can update it again with other fields
C15_Witness ==
    /\ Len(tasks_db) = 2
    /\ tasks_db[1].updated_at # tasks_db[1].created_at
    /\ \E token \in Tokens, json \in TaskJsons :
           /\ TaskCreate(json).title # tasks_db[1].title
           /\ update_task(users_db, tasks_db, current_task_id, clock,
                          tasks_db[1].id, TaskCreate(json), token).status = 200

\* C16: a successful delete removes the one task with the given id and
\* returns it as it was stored; the tasks before it and after it stay as
\* they were, in their order, and the id counter stays.
C16_DeleteRemovesOnlyItsTask ==
    \A token \in Tokens, id \in TaskIds :
        LET r == delete_task(users_db, tasks_db, current_task_id, id, token)
        IN r.status = 200 =>
               /\ Len(r.tasks) = Len(tasks_db) - 1
               /\ r.current_task_id = current_task_id
               /\ \E i \in 1..Len(tasks_db) :
                      /\ tasks_db[i].id = id
                      /\ r.body.task = tasks_db[i]
                      /\ \A k \in 1..(i - 1) : r.tasks[k] = tasks_db[k]
                      /\ \A k \in i..Len(r.tasks) : r.tasks[k] = tasks_db[k + 1]
               /\ \A k \in 1..Len(r.tasks) : r.tasks[k].id # id

\* a task was deleted while a task created after it was stored, which still
\* is
C16_Witness ==
    \E d \in deleted :
        /\ d.id < d.at
        /\ \E i \in 1..Len(tasks_db) : tasks_db[i].id = d.at

\* C18: every stored task has an updated timestamp that is not before its
\* created timestamp (the clock of the model never goes back), and a task
\* is created with the two equal.
C18_UpdatedNotBeforeCreated ==
    /\ \A i \in 1..Len(tasks_db) :
           tasks_db[i].updated_at >= tasks_db[i].created_at
    /\ \A token \in Tokens, json \in TaskJsons :
           LET r == create_task(users_db, tasks_db, current_task_id, clock,
                                TaskCreate(json), token)
           IN r.status = 200 => r.body.updated_at = r.body.created_at
    /\ \A token \in Tokens, id \in TaskIds, json \in TaskJsons :
           LET r == update_task(users_db, tasks_db, current_task_id, clock,
                                id, TaskCreate(json), token)
           IN r.status = 200 => r.body.updated_at >= r.body.created_at

\* a stored task was updated in a later minute than it was created in,
\* another was not updated since its creation in that later minute
C18_Witness ==
    \E i, j \in 1..Len(tasks_db) :
        /\ tasks_db[i].updated_at > tasks_db[i].created_at
        /\ tasks_db[j].updated_at = tasks_db[j].created_at
        /\ tasks_db[j].created_at = tasks_db[i].updated_at

\* the requests of one kind that have returned with the given status
Returned(op, status) ==
    { r \in ConcIds : /\ ConcRequests[r].op = op
                      /\ requests[r].pc = "done"
                      /\ requests[r].status = status }

\* the task the requests found, as one whole update request leaves it
UpdatedWhole(req) ==
    update_task(ConcUsers, ConcTasks, 2, clock, req.task_id,
                TaskCreate(req.json), req.token).body

\* a task as one whole create request stores it under the given id
CreatedWhole(req, id) ==
    create_task(ConcUsers, ConcTasks, id, clock,
                TaskCreate(req.json), req.token).body

\* the states of a task that lie between whole requests
WholeTasks ==
    {ConcTasks[1]}
    \cup { UpdatedWhole(ConcRequests[r]) :
             r \in { q \in ConcIds : ConcRequests[q].op = "update" } }
    \cup { CreatedWhole(ConcRequests[r], id) :
             r \in { q \in ConcIds : ConcRequests[q].op = "create" },
             id \in 2..(1 + Len(ConcRequests)) }

\* C17: requests issued at once execute one whole handler after another:
\* creates that returned have pairwise different ids and the store holds no
\* id twice, every task a get or a list returned is in a state between
\* whole requests (never a part of an update), and every request that
\* returned left the response and the state of its handler run as one step.
C17_HandlersAtomic ==
    /\ \A r1, r2 \in Returned("create", 200) :
           r1 # r2 => requests[r1].body.id # requests[r2].body.id
    /\ \A i, j \in 1..Len(tasks_db) :
           i # j => tasks_db[i].id # tasks_db[j].id
    /\ \A r \in Returned("get", 200) : requests[r].body \in WholeTasks
    /\ \A r \in Returned("list", 200) :
           \A k \in 1..Len(requests[r].body) :
               requests[r].body[k] \in WholeTasks
    /\ \A r \in ConcIds : requests[r].pc = "done" => requests[r].atomic

\* both creates returned, and a get and a list returned after the update:
\* they show the task with all the fields of the update
C17_Witness ==
    /\ Cardinality(Returned("create", 200)) = 2
    /\ Returned("update", 200) # {}
    /\ \E r \in Returned("get", 200), u \in Returned("update", 200) :
           requests[r].body = UpdatedWhole(ConcRequests[u])
    /\ \E r \in Returned("list", 200), u \in Returned("update", 200) :
           /\ Len(requests[r].body) = 3
           /\ \E k \in 1..3 :
                  requests[r].body[k] = UpdatedWhole(ConcRequests[u])

====
